---- MODULE Spec2Model ----
(***************************************************************************)
(* A model of the static file server: the request parser (src/src/http.rs) *)
(* computed character by character, the per-connection supervisor          *)
(* (handle_client / handle_req in src/src/main.rs) and the accept loop     *)
(* with its shutdown coordination (main in src/src/main.rs).               *)
(*                                                                         *)
(* Text is a sequence of one-character strings, so that splitting,         *)
(* trimming and line reading are computed the way the code computes them.  *)
(***************************************************************************)
EXTENDS Naturals, Sequences, FiniteSets

(***************************************************************************)
(* Bounds of the model.                                                    *)
(***************************************************************************)
\* connections a run may open
MaxConns == 2
\* messages the clients of a run may send, over all connections
MaxReqs == 2
\* header lines of a parser test case
MaxHeaders == 2

(***************************************************************************)
(* Characters and text.                                                    *)
(***************************************************************************)
SP == " "
CR == "\r"
LF == "\n"
CRLF == <<CR, LF>>

\* char::is_whitespace, restricted to the characters the inputs use
IsWhitespace(ch) == ch \in {" ", "\t", "\r", "\n"}

RECURSIVE SplitWs(_, _, _, _)
SplitWs(s, i, cur, acc) ==
    IF i > Len(s)
    THEN IF cur = <<>> THEN acc ELSE Append(acc, cur)
    ELSE IF IsWhitespace(s[i])
         THEN SplitWs(s, i + 1, <<>>, IF cur = <<>> THEN acc ELSE Append(acc, cur))
         ELSE SplitWs(s, i + 1, Append(cur, s[i]), acc)

\* str::split_whitespace: the maximal runs of non-whitespace characters
split_whitespace(s) == SplitWs(s, 1, <<>>, <<>>)

RECURSIVE SplitOn(_, _, _, _, _)
SplitOn(s, sep, i, cur, acc) ==
    IF i > Len(s)
    THEN Append(acc, cur)
    ELSE IF s[i] = sep
         THEN SplitOn(s, sep, i + 1, <<>>, Append(acc, cur))
         ELSE SplitOn(s, sep, i + 1, Append(cur, s[i]), acc)

\* str::split(sep): every piece between separators, always at least one piece
split(s, sep) == SplitOn(s, sep, 1, <<>>, <<>>)

RECURSIVE TrimStart(_)
TrimStart(s) ==
    IF s # <<>> /\ IsWhitespace(Head(s)) THEN TrimStart(Tail(s)) ELSE s

RECURSIVE TrimEnd(_)
TrimEnd(s) ==
    IF s # <<>> /\ IsWhitespace(s[Len(s)])
    THEN TrimEnd(SubSeq(s, 1, Len(s) - 1))
    ELSE s

\* str::trim
trim(s) == TrimEnd(TrimStart(s))

(***************************************************************************)
(* Header maps: HashMap<String, String> as a set of <<key, value>> pairs   *)
(* holding at most one pair per key.                                       *)
(***************************************************************************)
EmptyMap == {}

\* HashMap::insert: the new value replaces the old one of the same key
insert(h, k, v) == {p \in h : p[1] # k} \cup {<<k, v>>}

HasKey(h, k) == \E p \in h : p[1] = k

\* HashMap::get, for a key the map holds
get(h, k) == (CHOOSE p \in h : p[1] = k)[2]

(***************************************************************************)
(* The request parser.                                                     *)
(***************************************************************************)
GET == <<"G", "E", "T">>

NoRequest == [method |-> "none", path |-> <<>>, headers |-> EmptyMap]

\* the first index of ch in s at or after i, or 0
RECURSIVE IndexFrom(_, _, _)
IndexFrom(s, ch, i) ==
    IF i > Len(s) THEN 0
    ELSE IF s[i] = ch THEN i
    ELSE IndexFrom(s, ch, i + 1)

\* AsyncBufReadExt::read_line on a stream holding `data`, whose end is
\* "open" (more may come), "eof" (the peer has shut its side) or "err":
\* the bytes up to and including the first LF; at end of stream whatever
\* is left (the empty line when nothing is); pending while neither is there.
read_line(data, end) ==
    LET n == IndexFrom(data, LF, 1) IN
    IF n > 0
    THEN [kind |-> "line", line |-> SubSeq(data, 1, n),
          rest |-> SubSeq(data, n + 1, Len(data))]
    ELSE IF end = "eof"
         THEN [kind |-> "line", line |-> data, rest |-> <<>>]
         ELSE IF end = "err"
              THEN [kind |-> "err", line |-> <<>>, rest |-> <<>>]
              ELSE [kind |-> "pending", line |-> <<>>, rest |-> data]

\* Method::try_from: only the exact token GET is a method
try_from_Lower(value) == value \in {GET, <<"g", "e", "t">>}

try_from(value) == value = GET

Failure(msg) == [kind |-> "err", err |-> msg, req |-> NoRequest, rest |-> <<>>]

Pending == [kind |-> "pending", err |-> "", req |-> NoRequest, rest |-> <<>>]

\* the line ends the header block
EndsHeaders_NoEof(line) == line = <<LF>> \/ line = CRLF

EndsHeaders(line) == line = <<>> \/ line = <<LF>> \/ line = CRLF

\* the header loop of parse_request
RECURSIVE HeaderLoop(_, _, _, _, _)
HeaderLoop(data, end, method, path, headers) ==
    LET r == read_line(data, end) IN
    IF r.kind = "pending" THEN Pending
    ELSE IF r.kind = "err" THEN Failure("io")
    ELSE IF EndsHeaders(r.line)
         THEN [kind |-> "ok", err |-> "",
               req |-> [method |-> method, path |-> path, headers |-> headers],
               rest |-> r.rest]
         ELSE LET comps == split(r.line, ":") IN
              IF Len(comps) < 2
              THEN Failure("missing header value")
              ELSE HeaderLoop(r.rest, end, method, path,
                              insert(headers, comps[1], trim(comps[2])))

\* parse_request: the request line, then the header loop
parse_request(data, end) ==
    LET r == read_line(data, end) IN
    IF r.kind = "pending" THEN Pending
    ELSE IF r.kind = "err" THEN Failure("io")
    ELSE LET parts == split_whitespace(r.line) IN
         IF parts = <<>> THEN Failure("missing method")
         ELSE IF ~try_from(parts[1]) THEN Failure("unsupported method")
         ELSE IF Len(parts) < 2 THEN Failure("missing path")
         ELSE HeaderLoop(r.rest, end, "Get", parts[2], EmptyMap)

(***************************************************************************)
(* The filesystem resolver and the responses it builds.                    *)
(***************************************************************************)
\* what the filesystem answers for a path: no regular file there, a regular
\* file that cannot be opened, one whose metadata cannot be read, a file
FsAnswers == {"not_file", "open_err", "metadata_err", "file"}

\* header names and values of the responses, file extensions
ContentType == <<"C", "o", "n", "t", "e", "n", "t", "-", "T", "y", "p", "e">>
ContentLength == <<"C", "o", "n", "t", "e", "n", "t", "-", "L", "e", "n", "g", "t", "h">>
text_html == <<"t", "e", "x", "t", "/", "h", "t", "m", "l">>
text_css == <<"t", "e", "x", "t", "/", "c", "s", "s">>
text_javascript == <<"t", "e", "x", "t", "/", "j", "a", "v", "a", "s", "c", "r", "i", "p", "t">>
image_png == <<"i", "m", "a", "g", "e", "/", "p", "n", "g">>
image_jpeg == <<"i", "m", "a", "g", "e", "/", "j", "p", "e", "g">>
image_gif == <<"i", "m", "a", "g", "e", "/", "g", "i", "f">>
octet_stream == <<"a", "p", "p", "l", "i", "c", "a", "t", "i", "o", "n", "/", "o", "c", "t", "e", "t", "-", "s", "t", "r", "e", "a", "m">>
html == <<"h", "t", "m", "l">>
css == <<"c", "s", "s">>
js == <<"j", "s">>
png == <<"p", "n", "g">>
jpg == <<"j", "p", "g">>
gif == <<"g", "i", "f">>

Digits == <<"0", "1", "2", "3", "4", "5", "6", "7", "8", "9">>

\* u64 / usize to_string(): the decimal digits
RECURSIVE to_string(_)
to_string(n) ==
    IF n < 10 THEN <<Digits[n + 1]>>
    ELSE to_string(n \div 10) \o <<Digits[(n % 10) + 1]>>

\* the last index of ch in s, 0 when there is none
LastIndex(s, ch) ==
    LET I == {i \in 1..Len(s) : s[i] = ch}
    IN  IF I = {} THEN 0 ELSE CHOOSE i \in I : \A j \in I : j <= i

\* Path::file_name: what follows the last '/'
file_name(path) == SubSeq(path, LastIndex(path, "/") + 1, Len(path))

\* Path::extension: what follows the last '.' of the file name; there is none
\* (here the empty text, which no branch of mime_type matches either) when the
\* name holds no '.' or only begins with one
extension(path) ==
    LET name == file_name(path)
        i == LastIndex(name, ".")
    IN  IF i <= 1 THEN <<>> ELSE SubSeq(name, i + 1, Len(name))

mime_type(path) ==
    LET ext == extension(path)
    IN  IF ext = html THEN text_html
        ELSE IF ext = css THEN text_css
        ELSE IF ext = js THEN text_javascript
        ELSE IF ext = png THEN image_png
        ELSE IF ext = jpg THEN image_jpeg
        ELSE IF ext = gif THEN image_gif
        ELSE octet_stream

\* Response.data: a Cursor over bytes held in memory, or the open file, whose
\* bytes are read when the response is written
Cursor(bytes) == [kind |-> "cursor", bytes |-> bytes]
FileData == [kind |-> "file", bytes |-> <<>>]
NoData == [kind |-> "none", bytes |-> <<>>]

\* Response::from_html: data is the text as bytes
from_html(status, data) ==
    [status |-> status,
     headers |-> insert(insert(EmptyMap, ContentType, text_html),
                        ContentLength, to_string(Len(data))),
     data |-> Cursor(data)]

\* Response::from_file, once file.metadata() answered len: status Ok
from_file(path, len) ==
    [status |-> "Ok",
     headers |-> insert(insert(EmptyMap, ContentLength, to_string(len)),
                        ContentType, mime_type(path)),
     data |-> FileData]

NoResponse == [status |-> "none", headers |-> EmptyMap, data |-> NoData]

\* static/404.html, which include_str! compiles in: its text is not part of
\* the sources at hand, a short page stands for it
Page404 == <<"4", "0", "4">>

\* the file the server's root holds, as the resolver's metadata() sees it
StaticFile == <<"a", "b">>

\* StaticFileHandler::handle: strip_prefix('/').unwrap() panics on a path
\* without the leading '/'; a path that is no regular file is the 404 page;
\* File::open and File::metadata failures are returned as errors
handle(request, fs) ==
    IF request.path = <<>> \/ Head(request.path) # "/"
    THEN [kind |-> "panic", resp |-> NoResponse]
    ELSE IF fs = "not_file"
         THEN [kind |-> "ok", resp |-> from_html("NotFound", Page404)]
         ELSE IF fs \in {"open_err", "metadata_err"}
              THEN [kind |-> "err", resp |-> NoResponse]
              ELSE [kind |-> "ok", resp |-> from_file(request.path, Len(StaticFile))]

(***************************************************************************)
(* The text the clients send.                                              *)
(***************************************************************************)
HTTP11 == <<"H", "T", "T", "P", "/", "1", ".", "1">>
POST == <<"P", "O", "S", "T">>
LowerGet == <<"g", "e", "t">>
PathFoo == <<"/", "f", "o", "o">>
PathRoot == <<"/">>
PathNoSlash == <<"f", "o", "o">>
Connection == <<"C", "o", "n", "n", "e", "c", "t", "i", "o", "n">>
close == <<"c", "l", "o", "s", "e">>
keep_alive == <<"k", "e", "e", "p", "-", "a", "l", "i", "v", "e">>
Host == <<"H", "o", "s", "t">>
localhost == <<"l", "o", "c", "a", "l", "h", "o", "s", "t">>
localhost8080 == localhost \o <<":", "8", "0", "8", "0">>

\* "<method> <path> HTTP/1.1\r\n"
ReqLine(m, p) == m \o <<SP>> \o p \o <<SP>> \o HTTP11 \o CRLF

\* "<key>: <value>\r\n"
HdrLine(k, v) == k \o <<":", SP>> \o v \o CRLF

(***************************************************************************)
(* Parser test cases: a request line, header lines and an ending, each     *)
(* listed with what it is (not computed by the parser).                    *)
(***************************************************************************)
Paths == {PathFoo, PathRoot, PathNoSlash}

\* "GET <path> HTTP/1.1\r\n"
GoodRequestLines ==
    {[text |-> ReqLine(GET, p), ntok |-> 3, first |-> GET, path |-> p] : p \in Paths}

\* accepted by the code though the version token is missing
LenientRequestLines ==
    {[text |-> GET \o <<SP>> \o PathFoo \o CRLF, ntok |-> 2, first |-> GET,
      path |-> PathFoo]}

BadRequestLines ==
    {[text |-> ReqLine(POST, PathRoot), ntok |-> 3, first |-> POST, path |-> PathRoot],
     [text |-> ReqLine(LowerGet, PathFoo), ntok |-> 3, first |-> LowerGet,
      path |-> PathFoo],
     [text |-> GET \o CRLF, ntok |-> 1, first |-> GET, path |-> <<>>],
     [text |-> CRLF, ntok |-> 0, first |-> <<>>, path |-> <<>>]}

RequestLines == GoodRequestLines \cup LenientRequestLines \cup BadRequestLines

\* "<key>: <value>\r\n"
GoodHeaderLines ==
    {[text |-> HdrLine(kv[1], kv[2]), key |-> kv[1], value |-> kv[2], colon |-> TRUE] :
        kv \in {<<Host, localhost>>, <<Host, localhost8080>>, <<Connection, close>>,
                <<Connection, keep_alive>>}}

\* a line with an empty header name, and lines with no ':'
OddHeaderLines ==
    {[text |-> <<":", SP, "x">> \o CRLF, key |-> <<>>, value |-> <<"x">>, colon |-> TRUE],
     [text |-> Host \o CRLF, key |-> Host, value |-> <<>>, colon |-> FALSE],
     [text |-> <<SP>> \o CRLF, key |-> <<>>, value |-> <<>>, colon |-> FALSE]}

HeaderLines == GoodHeaderLines \cup OddHeaderLines

\* how the header block ends: a blank line "\r\n", a blank line "\n", the end
\* of the stream with no blank line, or a read error with no blank line
Endings == {"crlf", "lf", "eof", "err"}

EndingText(e) == IF e = "crlf" THEN CRLF ELSE IF e = "lf" THEN <<LF>> ELSE <<>>

SeqsUpTo(S, n) == UNION {[1..k -> S] : k \in 0..n}

TestCases ==
    [reqLine : RequestLines, hdrs : SeqsUpTo(HeaderLines, MaxHeaders), ending : Endings]

NoTestCase == [reqLine |-> <<>>, hdrs |-> <<>>, ending |-> "none"]

RECURSIVE ConcatTexts(_)
ConcatTexts(hs) == IF hs = <<>> THEN <<>> ELSE Head(hs).text \o ConcatTexts(Tail(hs))

TestCaseText(t) == t.reqLine.text \o ConcatTexts(t.hdrs) \o EndingText(t.ending)

\* the messages the clients of the server send
MsgKeep == ReqLine(GET, PathFoo) \o CRLF
MsgClose == ReqLine(GET, PathFoo) \o HdrLine(Connection, close) \o CRLF
MsgPost == ReqLine(POST, PathRoot) \o CRLF
MsgNoSlash == ReqLine(GET, PathNoSlash) \o CRLF

Messages == {MsgKeep, MsgClose, MsgPost, MsgNoSlash}

(***************************************************************************)
(* State.                                                                  *)
(***************************************************************************)
VARIABLES
    mainPc,            \* where main is: "start", "select", "select_cancel_only",
                       \* "join", "returned", "bind_panic"
    cancelled,         \* the CancellationToken
    backlog,           \* connections the listener has not accepted yet
    tasks,             \* main's Vec of JoinHandles, as connection numbers
    pc,                \* per connection: "Unconnected", "Backlog",
                       \* "AwaitingRequest", "Resolving", "Writing", "Closed"
    inbuf,             \* per connection: the bytes sent and not yet parsed
    inEnd,             \* per connection: "open", "eof", "err", "dropped"
    req,               \* per connection: the request being handled
    close_connection,  \* per connection: handle_req's close_connection
    resp,              \* per connection: the response being written
    written,           \* per connection, of the response to the last request
                       \* parsed: "idle" (no request yet), "nothing", "head"
                       \* (status and headers), "full"
    fault,             \* per connection: the failure logged for the last
                       \* request ("none" when none)
    sent,              \* messages sent by the clients so far
    tc,                \* the parser test case of the run (NoTestCase when none)
    wPc,               \* the response under test: "off", "build", "ready",
                       \* "head" (write_all done), "done", "failed"
    wBuilt,            \* how it was built: "none", "from_html", "from_file",
                       \* "literal"
    wInserted,         \* the keys of its header map, in the order of insertion
    wResp,             \* the Response
    wFile,             \* the bytes the served file holds on disk now
    wOut,              \* the bytes written to the stream
    wBody              \* those of them that io::copy copied

vars == <<mainPc, cancelled, backlog, tasks, pc, inbuf, inEnd, req, close_connection,
          resp, written, fault, sent, tc, wPc, wBuilt, wInserted, wResp, wFile, wOut,
          wBody>>
wVars == <<wPc, wBuilt, wInserted, wResp, wFile, wOut, wBody>>

mainVars == <<mainPc, cancelled, backlog, tasks>>

connVars == <<pc, inbuf, inEnd, req, close_connection, resp, written, fault>>

Conns == 1..MaxConns

Dispatching == {"Resolving", "Writing"}

Running == {"AwaitingRequest"} \cup Dispatching

ServerInit ==
    /\ mainPc = "start"
    /\ cancelled = FALSE
    /\ backlog = <<>>
    /\ tasks = <<>>
    /\ pc = [c \in Conns |-> "Unconnected"]
    /\ inbuf = [c \in Conns |-> <<>>]
    /\ inEnd = [c \in Conns |-> "open"]
    /\ req = [c \in Conns |-> NoRequest]
    /\ close_connection = [c \in Conns |-> FALSE]
    /\ resp = [c \in Conns |-> NoResponse]
    /\ written = [c \in Conns |-> "idle"]
    /\ fault = [c \in Conns |-> "none"]
    /\ sent = 0
    /\ tc = NoTestCase

\* no response is under test
WriterOff ==
    /\ wPc = "off"
    /\ wBuilt = "none"
    /\ wInserted = <<>>
    /\ wResp = NoResponse
    /\ wFile = <<>>
    /\ wOut = <<>>
    /\ wBody = <<>>

Init == ServerInit /\ WriterOff

(***************************************************************************)
(* main: bind, the accept loop, the join.                                  *)
(***************************************************************************)
\* TcpListener::bind(..).await.unwrap(): a bind failure panics main
Bind ==
    /\ mainPc = "start"
    /\ \E ok \in BOOLEAN : mainPc' = IF ok THEN "select" ELSE "bind_panic"
    /\ UNCHANGED <<cancelled, backlog, tasks, connVars, sent, tc, wVars>>

\* the signal task: ctrl_c() completes and the token is cancelled
CtrlC ==
    /\ mainPc \in {"select", "select_cancel_only", "join"}
    /\ ~cancelled
    /\ cancelled' = TRUE
    /\ UNCHANGED <<mainPc, backlog, tasks, connVars, sent, tc, wVars>>

\* the accept branch of main's select!: it is polled in random order with the
\* cancellation branch, so a ready connection may be taken whether or not the
\* token is cancelled; the supervisor is spawned and its handle pushed
Accept ==
    /\ mainPc = "select"
    /\ backlog # <<>>
    /\ LET c == Head(backlog) IN
        /\ backlog' = Tail(backlog)
        /\ tasks' = Append(tasks, c)
        /\ pc' = [pc EXCEPT ![c] = "AwaitingRequest"]
    /\ UNCHANGED <<mainPc, cancelled, inbuf, inEnd, req, close_connection,
                   resp, written, fault, sent, tc, wVars>>

\* accept() returns Err: the pattern Ok(..) does not match, select! disables
\* the branch and goes on waiting for the cancellation branch alone
AcceptError ==
    /\ mainPc = "select"
    /\ mainPc' = "select_cancel_only"
    /\ UNCHANGED <<cancelled, backlog, tasks, connVars, sent, tc, wVars>>

\* the cancellation branch of main's select!: break
StopListening ==
    /\ mainPc \in {"select", "select_cancel_only"}
    /\ cancelled
    /\ mainPc' = "join"
    /\ UNCHANGED <<cancelled, backlog, tasks, connVars, sent, tc, wVars>>

\* a JoinHandle resolves when its task has returned or panicked
TaskFinished(c) == pc[c] = "Closed"

JoinAllDone_NoWait == TRUE

\* futures::future::join_all(tasks): every handle has resolved
JoinAllDone == \A i \in 1..Len(tasks) : TaskFinished(tasks[i])

\* join_all(tasks).await; Ok(())
JoinAll ==
    /\ mainPc = "join"
    /\ JoinAllDone
    /\ mainPc' = "returned"
    /\ UNCHANGED <<cancelled, backlog, tasks, connVars, sent, tc, wVars>>

(***************************************************************************)
(* The clients.                                                            *)
(***************************************************************************)
Listening == mainPc \in {"select", "select_cancel_only", "join"}

\* a client connects: the connection waits in the listener's backlog
ClientConnect ==
    /\ Listening
    /\ \E c \in Conns :
        /\ pc[c] = "Unconnected"
        /\ \A d \in Conns : d < c => pc[d] # "Unconnected"
        /\ pc' = [pc EXCEPT ![c] = "Backlog"]
        /\ backlog' = Append(backlog, c)
    /\ UNCHANGED <<mainPc, cancelled, tasks, inbuf, inEnd, req, close_connection,
                   resp, written, fault, sent, tc, wVars>>

\* the client of an accepted connection may write until it shuts its side
\* down. The supervisor looks at the stream in AwaitingRequest only, so what a
\* client does during a dispatch is taken to arrive when the supervisor is back
\* there.
ClientCanWrite(c) ==
    /\ mainPc # "returned"
    /\ pc[c] = "AwaitingRequest"
    /\ inEnd[c] = "open"

\* a client sends one message, once its last one has been read
ClientSend(c) ==
    /\ ClientCanWrite(c)
    /\ inbuf[c] = <<>>
    /\ sent < MaxReqs
    /\ \E m \in Messages : inbuf' = [inbuf EXCEPT ![c] = inbuf[c] \o m]
    /\ sent' = sent + 1
    /\ UNCHANGED <<mainVars, pc, inEnd, req, close_connection, resp, written, fault, tc, wVars>>

\* a client shuts its sending side down once what it sent has been read: the
\* supervisor reads end of stream
ClientEnd(c) ==
    /\ ClientCanWrite(c)
    /\ inbuf[c] = <<>>
    /\ inEnd' = [inEnd EXCEPT ![c] = "eof"]
    /\ UNCHANGED <<mainVars, pc, inbuf, req, close_connection, resp, written, fault,
                   sent, tc, wVars>>

(***************************************************************************)
(* The supervisor of one connection: handle_client and handle_req.         *)
(***************************************************************************)
\* handle_req: the request asks for the connection to be closed
CloseConnection(r) == HasKey(r.headers, Connection) /\ get(r.headers, Connection) = close

\* handle_req when the handler returns Err: it logs and returns Ok(false)
OnHandlerError(close_conn) == FALSE

\* handle_client after handle_req returned Ok(close_conn): break or loop
AfterRequest(close_conn) == IF close_conn THEN "Closed" ELSE "AwaitingRequest"

AfterParseError_Continue == "AwaitingRequest"

\* handle_client when parse_request returns Err: it logs and breaks
AfterParseError == "Closed"

MainOnTaskPanic_Abort(m) == "task_panic"

\* tokio::spawn: a panic inside the task unwinds that task alone and is
\* reported through its JoinHandle; main goes on as it was
MainOnTaskPanic(m) == m

\* the supervisor goes to state `to`; when that ends the task, handle_client's
\* BufStream is dropped with what it held
Goto(c, to) ==
    /\ pc' = [pc EXCEPT ![c] = to]
    /\ inEnd' = [inEnd EXCEPT ![c] = IF to = "Closed" THEN "dropped" ELSE inEnd[c]]

\* the task panics: its locals and its stream are dropped with it
Panic(c, why) ==
    /\ Goto(c, "Closed")
    /\ fault' = [fault EXCEPT ![c] = why]
    /\ inbuf' = [inbuf EXCEPT ![c] = <<>>]
    /\ req' = [req EXCEPT ![c] = NoRequest]
    /\ resp' = [resp EXCEPT ![c] = NoResponse]
    /\ mainPc' = MainOnTaskPanic(mainPc)

\* the parse branch of handle_client's select! completes
ParseRequest(c) ==
    /\ pc[c] = "AwaitingRequest"
    /\ LET r == parse_request(inbuf[c], inEnd[c]) IN
        /\ r.kind # "pending"
        /\ \/ /\ r.kind = "ok"
              /\ Goto(c, "Resolving")
              /\ req' = [req EXCEPT ![c] = r.req]
              /\ close_connection' = [close_connection EXCEPT ![c] = CloseConnection(r.req)]
              /\ inbuf' = [inbuf EXCEPT ![c] = r.rest]
              /\ written' = [written EXCEPT ![c] = "nothing"]
              /\ fault' = [fault EXCEPT ![c] = "none"]
           \/ /\ r.kind = "err"
              /\ Goto(c, AfterParseError)
              /\ fault' = [fault EXCEPT ![c] = "parse"]
              /\ inbuf' = [inbuf EXCEPT ![c] = <<>>]
              /\ UNCHANGED <<req, close_connection, written>>
    /\ UNCHANGED <<mainVars, resp, sent, tc, wVars>>

\* the cancellation branch of handle_client's select!: it is polled in random
\* order with the parse branch, so it may win whether or not a request is ready
\* (mutant) the select! wraps the whole loop body, so that cancellation also
\* drops a request that is being resolved or answered
CancelObservable_Anywhere(c) == pc[c] \in Running

\* (mutant) the select! prefers the parse branch: the token is looked at only
\* when no byte of a next request is buffered
CancelObservable_Idle(c) == pc[c] = "AwaitingRequest" /\ inbuf[c] = <<>>

\* token.cancelled() is awaited only in the select! around parse_request
CancelObservable(c) == pc[c] = "AwaitingRequest"

\* (mutant) the cancellation branch logs and goes round the loop again
AfterCancel_Continue == "AwaitingRequest"

\* the cancellation branch ends with break
AfterCancel == "Closed"

ObserveCancel(c) ==
    /\ CancelObservable(c)
    /\ cancelled
    /\ Goto(c, AfterCancel)
    /\ inbuf' = [inbuf EXCEPT ![c] = <<>>]
    /\ UNCHANGED <<mainVars, req, close_connection, resp, written, fault, sent, tc, wVars>>

\* handle_req: handler.handle(req).await
Resolve(c) ==
    /\ pc[c] = "Resolving"
    /\ \E fs \in FsAnswers :
        LET h == handle(req[c], fs) IN
        \/ /\ h.kind = "panic"
           /\ Panic(c, "panic_path")
        \/ /\ h.kind = "err"
           /\ fault' = [fault EXCEPT ![c] = "resolve"]
           /\ Goto(c, AfterRequest(OnHandlerError(close_connection[c])))
           /\ req' = [req EXCEPT ![c] = NoRequest]
           /\ UNCHANGED <<mainPc, inbuf, resp>>
        \/ /\ h.kind = "ok"
           /\ resp' = [resp EXCEPT ![c] = h.resp]
           /\ Goto(c, "Writing")
           /\ UNCHANGED <<mainPc, inbuf, req, fault>>
    /\ UNCHANGED <<cancelled, backlog, tasks, close_connection, written, sent, tc, wVars>>

\* Response::write: stream.write_all(status and headers); handle_req unwraps
\* the result, so a failed write panics the task
WriteHead(c) ==
    /\ pc[c] = "Writing"
    /\ written[c] = "nothing"
    /\ \E ok \in BOOLEAN :
        IF ok
        THEN /\ written' = [written EXCEPT ![c] = "head"]
             /\ UNCHANGED <<mainPc, pc, inbuf, inEnd, req, resp, fault>>
        ELSE /\ Panic(c, "panic_write")
             /\ UNCHANGED written
    /\ UNCHANGED <<cancelled, backlog, tasks, close_connection, sent, tc, wVars>>

\* Response::write: tokio::io::copy(body); then handle_req returns
\* Ok(close_connection) and handle_client breaks or loops
WriteBody(c) ==
    /\ pc[c] = "Writing"
    /\ written[c] = "head"
    /\ \E ok \in BOOLEAN :
        IF ok
        THEN /\ written' = [written EXCEPT ![c] = "full"]
             /\ Goto(c, AfterRequest(close_connection[c]))
             /\ req' = [req EXCEPT ![c] = NoRequest]
             /\ resp' = [resp EXCEPT ![c] = NoResponse]
             /\ inbuf' = [inbuf EXCEPT ![c] =
                             IF AfterRequest(close_connection[c]) = "Closed"
                             THEN <<>> ELSE inbuf[c]]
             /\ UNCHANGED <<mainPc, fault>>
        ELSE /\ Panic(c, "panic_write")
             /\ UNCHANGED written
    /\ UNCHANGED <<cancelled, backlog, tasks, close_connection, sent, tc, wVars>>

(***************************************************************************)
(* The server.                                                             *)
(***************************************************************************)
Next ==
    \/ Bind
    \/ CtrlC
    \/ Accept
    \/ AcceptError
    \/ StopListening
    \/ JoinAll
    \/ ClientConnect
    \/ \E c \in Conns : ClientSend(c)
    \/ \E c \in Conns : ClientEnd(c)
    \/ \E c \in Conns : ParseRequest(c)
    \/ \E c \in Conns : ObserveCancel(c)
    \/ \E c \in Conns : Resolve(c)
    \/ \E c \in Conns : WriteHead(c)
    \/ \E c \in Conns : WriteBody(c)

Spec == Init /\ [][Next]_vars

(***************************************************************************)
(* The parser on its test cases: one accepted connection whose client has  *)
(* sent the text of a test case, and the supervisor's parse step on it.    *)
(***************************************************************************)
InitParse ==
    /\ tc \in TestCases
    /\ WriterOff
    /\ mainPc = "select"
    /\ cancelled = FALSE
    /\ backlog = <<>>
    /\ tasks = <<1>>
    /\ pc = [c \in Conns |-> IF c = 1 THEN "AwaitingRequest" ELSE "Unconnected"]
    /\ inbuf = [c \in Conns |-> IF c = 1 THEN TestCaseText(tc) ELSE <<>>]
    /\ inEnd = [c \in Conns |-> IF c = 1 /\ tc.ending \in {"eof", "err"}
                                 THEN tc.ending ELSE "open"]
    /\ req = [c \in Conns |-> NoRequest]
    /\ close_connection = [c \in Conns |-> FALSE]
    /\ resp = [c \in Conns |-> NoResponse]
    /\ written = [c \in Conns |-> "idle"]
    /\ fault = [c \in Conns |-> "none"]
    /\ sent = 1

NextParse == \E c \in Conns : ParseRequest(c)

SpecParse == InitParse /\ [][NextParse]_vars

(***************************************************************************)
(* Response::write on its own: a response is built by one of the two       *)
(* factories or as a struct literal (the fields of Response are public),   *)
(* and written to a stream; the served file may change on disk meanwhile.  *)
(***************************************************************************)
NotFoundText == <<"4", "0", "4", " ", "N", "o", "t", " ", "F", "o", "u", "n", "d">>
OkText == <<"2", "0", "0", " ", "O", "K">>

\* Display for Status
fmt(status) == IF status = "NotFound" THEN NotFoundText ELSE OkText

\* Vec<String>::join(sep)
RECURSIVE join(_, _)
join(lines, sep) ==
    IF lines = <<>> THEN <<>>
    ELSE IF Len(lines) = 1 THEN lines[1]
    ELSE lines[1] \o sep \o join(Tail(lines), sep)

\* the orders in which HashMap::iter may yield the entries of a map: the order
\* is unspecified (the hasher is seeded at random for each map)
IterOrders(h) ==
    {o \in [1..Cardinality(h) -> h] : \A i, j \in 1..Cardinality(h) : o[i] = o[j] => i = j}

\* format!("{}: {}", k, v)
HeaderText(kv) == kv[1] \o <<":", " ">> \o kv[2]

\* Response::status_and_headers, with the map iterated in the given order
status_and_headers(r, order) ==
    HTTP11 \o SP \o fmt(r.status) \o CRLF
    \o join([i \in 1..Len(order) |-> HeaderText(order[i])], CRLF) \o CRLF \o CRLF

Statuses == {"NotFound", "Ok"}
TenBytes == [i \in 1..10 |-> "x"]
Bodies == {<<>>, Page404, TenBytes}
FileContents == {<<>>, StaticFile, StaticFile \o <<"c">>}
PathAHtml == <<"/", "a", ".", "h", "t", "m", "l">>
PathBCss == <<"/", "b", ".", "c", "s", "s">>
FilePaths == {PathFoo, PathAHtml, PathBCss}
LiteralHeaders == {<<ContentType, text_html>>, <<Connection, close>>}

RECURSIVE InsertAll(_, _)
InsertAll(h, kvs) ==
    IF kvs = <<>> THEN h ELSE InsertAll(insert(h, Head(kvs)[1], Head(kvs)[2]), Tail(kvs))

\* the keys of kvs, each at its first insertion
RECURSIVE FirstKeys(_, _)
FirstKeys(seen, kvs) ==
    IF kvs = <<>> THEN <<>>
    ELSE IF Head(kvs)[1] \in seen THEN FirstKeys(seen, Tail(kvs))
    ELSE <<Head(kvs)[1]>> \o FirstKeys(seen \cup {Head(kvs)[1]}, Tail(kvs))

ServerVars == <<mainVars, connVars, sent, tc>>

InitWrite ==
    /\ ServerInit
    /\ wPc = "build"
    /\ wBuilt = "none"
    /\ wInserted = <<>>
    /\ wResp = NoResponse
    /\ wFile \in FileContents
    /\ wOut = <<>>
    /\ wBody = <<>>

FromHtml ==
    /\ wPc = "build"
    /\ \E status \in Statuses, data \in Bodies : wResp' = from_html(status, data)
    /\ wBuilt' = "from_html"
    /\ wInserted' = <<ContentType, ContentLength>>
    /\ wPc' = "ready"
    /\ UNCHANGED <<ServerVars, wFile, wOut, wBody>>

\* from_file on the file just opened: metadata() answers the length the file
\* has now, or fails
FromFile ==
    /\ wPc = "build"
    /\ \/ /\ \E path \in FilePaths : wResp' = from_file(path, Len(wFile))
          /\ wBuilt' = "from_file"
          /\ wInserted' = <<ContentLength, ContentType>>
          /\ wPc' = "ready"
       \/ /\ wPc' = "failed"
          /\ UNCHANGED <<wResp, wBuilt, wInserted>>
    /\ UNCHANGED <<ServerVars, wFile, wOut, wBody>>

\* Response { status, headers, data } written out by a caller
Literal ==
    /\ wPc = "build"
    /\ \E status \in Statuses, kvs \in SeqsUpTo(LiteralHeaders, MaxHeaders), data \in Bodies :
          /\ wResp' = [status |-> status, headers |-> InsertAll(EmptyMap, kvs),
                       data |-> Cursor(data)]
          /\ wInserted' = FirstKeys({}, kvs)
    /\ wBuilt' = "literal"
    /\ wPc' = "ready"
    /\ UNCHANGED <<ServerVars, wFile, wOut, wBody>>

\* another process rewrites the file while the response waits to be written
FileChanges ==
    /\ wPc \in {"ready", "head"}
    /\ wResp.data.kind = "file"
    /\ wFile' \in FileContents \ {wFile}
    /\ UNCHANGED <<ServerVars, wPc, wBuilt, wInserted, wResp, wOut, wBody>>

\* what reading self.data to its end yields
ReadToEnd(data) == IF data.kind = "file" THEN wFile ELSE data.bytes

\* write: stream.write_all(status_and_headers), which may fail part-way
WriteAll ==
    /\ wPc = "ready"
    /\ \E order \in IterOrders(wResp.headers) :
          LET bytes == status_and_headers(wResp, order)
          IN  \/ wOut' = bytes /\ wPc' = "head"
              \/ \E k \in 0..(Len(bytes) - 1) : wOut' = SubSeq(bytes, 1, k) /\ wPc' = "failed"
    /\ UNCHANGED <<ServerVars, wBuilt, wInserted, wResp, wFile, wBody>>

\* write: tokio::io::copy(self.data, stream), which may fail part-way
Copy ==
    /\ wPc = "head"
    /\ LET bytes == ReadToEnd(wResp.data)
       IN  \/ wBody' = bytes /\ wPc' = "done"
           \/ \E k \in 0..(Len(bytes) - 1) : wBody' = SubSeq(bytes, 1, k) /\ wPc' = "failed"
    /\ wOut' = wOut \o wBody'
    /\ UNCHANGED <<ServerVars, wBuilt, wInserted, wResp, wFile>>

NextWrite ==
    \/ FromHtml
    \/ FromFile
    \/ Literal
    \/ FileChanges
    \/ WriteAll
    \/ Copy

SpecWrite == InitWrite /\ [][NextWrite]_vars

(***************************************************************************)
(* Properties of the supervisor and of the accept loop, under Spec.        *)
(***************************************************************************)
Panics == {"panic_path", "panic_write"}

\* C1: when a dispatch ends without an I/O panic, a request whose header map
\* holds Connection: close has had exactly one response written and the
\* supervisor is Closed; any other request leaves it in AwaitingRequest, where
\* the next request is parsed.
C1_CloseHeaderDecidesKeepAlive ==
    [][\A c \in Conns :
          (pc[c] \in Dispatching /\ pc'[c] \notin Dispatching /\ fault'[c] \notin Panics)
          => IF <<Connection, close>> \in req[c].headers
             THEN pc'[c] = "Closed" /\ written'[c] = "full"
             ELSE pc'[c] = "AwaitingRequest"]_vars

\* C2: once the token is cancelled no supervisor is spawned: main's task list
\* never grows in a step taken with the flag set.
C2_NoSpawnAfterShutdown == [][cancelled => tasks' = tasks]_vars

\* C3: main has returned only when no supervisor is running: every connection
\* that was accepted is Closed, and every one of them is in main's task list.
C3_ReturnsAfterAllSupervisorsClosed ==
    mainPc = "returned" =>
        /\ \A c \in Conns : pc[c] \notin Running
        /\ \A c \in Conns : pc[c] = "Closed" => \E i \in 1..Len(tasks) : tasks[i] = c

\* main has returned after two supervisors ran, one of them having served a
\* response
C3_Witness ==
    /\ mainPc = "returned"
    /\ Len(tasks) >= 2
    /\ \E c \in Conns : written[c] = "full"

\* C4: whenever a supervisor is back at parsing (AwaitingRequest), the response
\* to the request it parsed last has been fully written.
C4_ResponseWrittenBeforeNextParse ==
    \A c \in Conns : pc[c] = "AwaitingRequest" => written[c] \in {"idle", "full"}

\* C5: a supervisor whose request failed to resolve, or whose response failed
\* to be written, is Closed.
C5_DispatchFailureCloses ==
    \A c \in Conns : fault[c] \in {"resolve", "panic_write"} => pc[c] = "Closed"

\* C8: after a parse failure the supervisor is Closed, no request was handed to
\* the resolver, no response was built, and nothing of a response is on the
\* stream beyond the complete responses to earlier requests.
C8_ParseFailureClosesSilently ==
    \A c \in Conns :
        fault[c] = "parse" =>
            /\ pc[c] = "Closed"
            /\ req[c] = NoRequest
            /\ resp[c] = NoResponse
            /\ written[c] # "head"

\* a request was answered in full and the next input on the connection failed
\* to parse
C8_Witness == \E c \in Conns : fault[c] = "parse" /\ written[c] = "full"

ConnState(c) ==
    <<pc[c], inbuf[c], inEnd[c], req[c], close_connection[c], resp[c], written[c], fault[c]>>

MainStates == {"start", "select", "select_cancel_only", "join", "returned", "bind_panic"}

\* C10: a step in which a supervisor fails (parse failure, resolver error,
\* panic on a write error or on a path without '/') changes nothing of any
\* other connection, of the accept loop, of the task list or of the token; and
\* main leaves its normal course only by the bind failure at startup.
C10_FailuresStayLocal ==
    [][/\ \A c \in Conns :
              (fault'[c] # fault[c] /\ fault'[c] # "none")
              => /\ mainVars' = mainVars
                 /\ \A d \in Conns \ {c} : ConnState(d)' = ConnState(d)
       /\ mainPc' \in MainStates
       /\ (mainPc' = "bind_panic" /\ mainPc # "bind_panic")
              => (mainPc = "start" /\ tasks = <<>>)]_vars

\* a supervisor has panicked while another one is running and main is still in
\* its accept loop
C10_Witness ==
    \E c, d \in Conns :
        /\ c # d
        /\ fault[c] \in Panics
        /\ pc[d] \in Running
        /\ mainPc = "select"

(***************************************************************************)
(* Properties of the parser, under SpecParse: connection 1 holds the text  *)
(* of the test case tc, and has been parsed once it left AwaitingRequest.  *)
(***************************************************************************)
Parsed == pc[1] # "AwaitingRequest"

ValidRequestLine(l) == l.ntok >= 2 /\ l.first = GET

AllColon(hs) == \A i \in 1..Len(hs) : hs[i].colon

\* the key/value pairs of the header lines, the last line of a key winning
ExpectedHeaders(hs) ==
    {<<hs[i].key, hs[i].value>> :
        i \in {i \in 1..Len(hs) : \A j \in (i + 1)..Len(hs) : hs[j].key # hs[i].key}}

\* C6: when the stream ends before a blank line, the parse fails and the
\* supervisor closes the connection without dispatching.
C6_EofBeforeBlankLineFails ==
    (tc.ending = "eof" /\ Parsed) => (pc[1] = "Closed" /\ fault[1] = "parse")

\* C6, amended: the end of the stream ends the header block as a blank line
\* does. After a request line with GET and a path and header lines that each
\* hold a ':', the parse returns a Request with that path and those header
\* names and the supervisor dispatches it; the parse fails exactly when the
\* request line or a header line is malformed.
C6_EofEndsHeaderBlock ==
    (tc.ending = "eof" /\ Parsed) =>
        IF ValidRequestLine(tc.reqLine) /\ AllColon(tc.hdrs)
        THEN /\ pc[1] = "Resolving"
             /\ req[1].path = tc.reqLine.path
             /\ {p[1] : p \in req[1].headers} = {tc.hdrs[i].key : i \in 1..Len(tc.hdrs)}
        ELSE pc[1] = "Closed" /\ fault[1] = "parse"

\* a request line and a header line followed by the end of the stream were
\* parsed into a request, which is being dispatched
C6_Witness ==
    /\ tc.ending = "eof"
    /\ Len(tc.hdrs) >= 1
    /\ pc[1] = "Resolving"
    /\ req[1].headers # EmptyMap

\* C7: a well-formed input ("GET <path> HTTP/1.1\r\n", header lines
\* "<key>: <value>\r\n", "\r\n") parses to a request with method GET, that
\* path, and exactly the key/value pairs of the header lines.
C7_WellFormedParsesExactly ==
    (/\ Parsed
     /\ tc.reqLine \in GoodRequestLines
     /\ \A i \in 1..Len(tc.hdrs) : tc.hdrs[i] \in GoodHeaderLines
     /\ tc.ending = "crlf")
    => /\ pc[1] = "Resolving"
       /\ req[1].method = "Get"
       /\ req[1].path = tc.reqLine.path
       /\ req[1].headers = ExpectedHeaders(tc.hdrs)

Malformed(t) ==
    \/ t.reqLine.ntok < 2
    \/ t.reqLine.first # GET
    \/ ~AllColon(t.hdrs)

\* C9: an input whose request line has fewer than two tokens, or whose first
\* token is not exactly GET, or that has a header line with no ':', makes
\* parse_request fail: no Request comes out of it and the supervisor closes.
C9_MalformedInputsFail ==
    Malformed(tc) =>
        IF Parsed
        THEN pc[1] = "Closed" /\ fault[1] = "parse" /\ req[1] = NoRequest
        ELSE parse_request(inbuf[1], inEnd[1]).kind = "err"

\* a good request line followed by a header line with no ':' was rejected
C9_Witness ==
    /\ Parsed
    /\ tc.reqLine \in GoodRequestLines
    /\ ~AllColon(tc.hdrs)
    /\ fault[1] = "parse"

\* C11: every request that parse_request hands to the resolver has a path that
\* begins with '/', and the resolver's strip_prefix('/') never fails.
C11_ParsedPathStartsWithSlash ==
    \A c \in Conns :
        /\ pc[c] = "Resolving" => (req[c].path # <<>> /\ Head(req[c].path) = "/")
        /\ fault[c] # "panic_path"

\* C14: shutdown never cuts a dispatch short. A supervisor that closed after
\* it parsed a request and before the response to it was complete did so
\* because resolving or writing failed, never because of the shutdown flag.
C14_ShutdownNeverCutsDispatch ==
    \A c \in Conns :
        (pc[c] = "Closed" /\ written[c] \in {"nothing", "head"}) => fault[c] # "none"

\* the flag is set while a supervisor is in the middle of writing a response,
\* and the supervisor is still there
C14_Witness ==
    /\ cancelled
    /\ \E c \in Conns : pc[c] = "Writing" /\ written[c] = "head" /\ fault[c] = "none"

ClosesSilently(c) ==
    /\ ObserveCancel(c)
    /\ pc'[c] = "Closed"
    /\ written'[c] = written[c]
    /\ req'[c] = req[c]
    /\ resp'[c] = resp[c]

SaysHeader(hs, i) == <<hs[i].key, hs[i].value>>
LastOfKey(hs, i) == \A j \in (i + 1)..Len(hs) : hs[j].key # hs[i].key

\* C17: in a parsed request, the header of each line is keyed by what precedes
\* the line's first ':' and holds all that follows it, trimmed; of two lines
\* with the same key the later one is stored.
C17_ValueIsRemainderAfterFirstColon ==
    (Parsed /\ pc[1] = "Resolving") =>
        \A i \in 1..Len(tc.hdrs) :
            LastOfKey(tc.hdrs, i) => SaysHeader(tc.hdrs, i) \in req[1].headers

\* C20: while the shutdown flag is not set, main in its accept loop with a
\* connection waiting can accept it, also after an accept that failed.
C20_AcceptsAfterAcceptError ==
    (/\ mainPc \in {"select", "select_cancel_only"}
     /\ ~cancelled
     /\ backlog # <<>>)
    => ENABLED Accept

(***************************************************************************)
(* The server under its runtime's scheduling: a task that can make a step  *)
(* is eventually polled.  main is woken by the token and leaves its        *)
(* select!, a supervisor is woken by the token at its select!, and every   *)
(* resolve and write that was started completes or fails.                  *)
(***************************************************************************)
Fairness ==
    /\ WF_vars(StopListening)
    /\ WF_vars(JoinAll)
    /\ \A c \in Conns :
          /\ WF_vars(ObserveCancel(c))
          /\ WF_vars(Resolve(c))
          /\ WF_vars(WriteHead(c))
          /\ WF_vars(WriteBody(c))

SpecLive == Spec /\ Fairness

AllSpawnedClosed == \A i \in 1..Len(tasks) : pc[tasks[i]] = "Closed"

\* C16: once the shutdown flag is set, eventually every spawned supervisor is
\* Closed, the accept loop has stopped and main has returned.
C16_ShutdownTerminates ==
    cancelled ~> (mainPc = "returned" /\ AllSpawnedClosed)

\* main has returned after the flag closed a supervisor that was idle on a
\* keep-alive connection
C16_Witness ==
    /\ cancelled
    /\ mainPc = "returned"
    /\ \E i \in 1..Len(tasks) :
          /\ pc[tasks[i]] = "Closed"
          /\ fault[tasks[i]] = "none"
          /\ ~close_connection[tasks[i]]

FactoryBuilt == wBuilt \in {"from_html", "from_file"}
NoEmptyKey(h) == \A kv \in h : kv[1] # <<>>

\* C12: no header map holds a key that is the empty text: not that of a
\* request the parser returned, not that of a response a factory built.
C12_NoEmptyHeaderName ==
    /\ \A c \in Conns : NoEmptyKey(req[c].headers) /\ NoEmptyKey(resp[c].headers)
    /\ FactoryBuilt => NoEmptyKey(wResp.headers)

\* C13: when a response built by from_html or from_file has been written, its
\* Content-Length header is the number of body bytes that were copied.
C13_ContentLengthIsBodyLength ==
    (wPc = "done" /\ FactoryBuilt) =>
        get(wResp.headers, ContentLength) = to_string(Len(wBody))

\* the message of the contract: status line, a line per header, one blank
\* line, the body
WellFormedMessage(r, order, body) ==
    HTTP11 \o SP \o fmt(r.status) \o CRLF
    \o join([i \in 1..Len(order) |-> HeaderText(order[i]) \o CRLF], <<>>)
    \o CRLF \o body

\* C18: what a completed write has put on the stream is the status line, one
\* line per header, exactly one blank line and then the body, unchanged.
C18_WritesOneWellFormedMessage ==
    wPc = "done" =>
        /\ wBody = ReadToEnd(wResp.data)
        /\ \E order \in IterOrders(wResp.headers) :
              wOut = WellFormedMessage(wResp, order, wBody)

\* the entries of the response's header map in the order of their insertion
InsertionOrder == [i \in 1..Len(wInserted) |-> <<wInserted[i], get(wResp.headers, wInserted[i])>>]

\* C19: the status-and-headers block that was written lists the headers in
\* the order of their insertion, so that it is a function of how the response
\* was built.
C19_HeadersInInsertionOrder ==
    wPc \in {"head", "done"} =>
        LET block == status_and_headers(wResp, InsertionOrder)
        IN  Len(wOut) >= Len(block) /\ SubSeq(wOut, 1, Len(block)) = block

====
